---- MODULE Spec2Model ----
(***************************************************************************)
(* Model of scripts/write_slide_data.py: one sequential run of the script  *)
(* (argument check, presentation open, title/notes extraction, directory   *)
(* listing, join, sort, data.json write), and a second run on the same     *)
(* inputs.  Text is modelled as sequences of one-character strings so that *)
(* the regular expressions, strip(), split() and int() are computed.       *)
(***************************************************************************)
EXTENDS Integers, Sequences, FiniteSets

VARIABLES
  pc,             \* position in the script
  error,          \* the exception that ended the run ("none" while running)
  run,            \* "first" or "second" invocation
  argv_len,       \* len(sys.argv)
  pptx_path,      \* sys.argv[1]
  prs_ok,         \* whether Presentation(pptx_path) opens
  meta_title,     \* prs.core_properties.title (optional text)
  deck,           \* prs.slides
  dir_ok,         \* whether os.listdir(images_path) succeeds
  folder,         \* entries of the image directory other than data.json
  fs_data,        \* content of <images_path>/data.json on disk
  fs_start,       \* content of data.json when the current run started
  prs_title,      \* script variable prs_title
  slide_info,     \* script variable slide_info
  folder_content, \* script variable folder_content
  pos,            \* position of the for loop over folder_content
  index,          \* script variable index (join loop)
  slides_data,    \* script variable slides_data
  data_file,      \* script variable data_file: "None", "open", "closed"
  exc,            \* exception pending inside the try block
  opened,         \* whether open() returned a handle in the current run
  out1            \* outcome of the first run

vars == << pc, error, run, argv_len, pptx_path, prs_ok, meta_title, deck,
           dir_ok, folder, fs_data, fs_start, prs_title, slide_info,
           folder_content, pos, index, slides_data, data_file, exc, opened,
           out1 >>

----------------------------------------------------------------------------
(* Bounds of the model *)

MaxSlides == 2
MaxEntries == 3
MaxShapes == 2
MaxK == 12
MaxZeros == 2

----------------------------------------------------------------------------
(* Characters and text *)

Digits == {"0", "1", "2", "3", "4", "5", "6", "7", "8", "9"}

Letters ==
  {"a", "b", "c", "d", "e", "f", "g", "h", "i", "j", "k", "l", "m",
   "n", "o", "p", "q", "r", "s", "t", "u", "v", "w", "x", "y", "z",
   "A", "B", "C", "D", "E", "F", "G", "H", "I", "J", "K", "L", "M",
   "N", "O", "P", "Q", "R", "S", "T", "U", "V", "W", "X", "Y", "Z"}

\* what \s and str.strip() treat as whitespace (the ASCII part)
Whitespace == {" ", "\t", "\n", "\r", "\f"}

Text(s) == [has |-> TRUE, text |-> s]
NoText == [has |-> FALSE, text |-> << >>]

Rep(c, n) == [i \in 1..n |-> c]

Min(I) == CHOOSE i \in I : \A j \in I : i <= j
Max(I) == CHOOSE i \in I : \A j \in I : i >= j

\* str.lstrip()
LStrip(s) ==
  LET I == {i \in 1..Len(s) : s[i] \notin Whitespace}
  IN  IF I = {} THEN << >> ELSE SubSeq(s, Min(I), Len(s))

\* str.rstrip()
RStrip(s) ==
  LET I == {i \in 1..Len(s) : s[i] \notin Whitespace}
  IN  IF I = {} THEN << >> ELSE SubSeq(s, 1, Max(I))

\* str.strip()
Strip(s) == RStrip(LStrip(s))

IsKept(x) == x.keep

\* re.sub(r"\s+", " ", s): each maximal run of whitespace becomes one space
SubWs(s) ==
  LET marked == [i \in 1..Len(s) |->
                   IF s[i] \in Whitespace
                   THEN [c |-> " ", keep |-> i = 1 \/ s[i - 1] \notin Whitespace]
                   ELSE [c |-> s[i], keep |-> TRUE]]
      kept == SelectSeq(marked, IsKept)
  IN  [i \in 1..Len(kept) |-> kept[i].c]

KeepChar(c) == c \in Digits \cup Letters \cup {" "}

\* re.sub("[^0-9a-zA-Z ]+", "", s)
SubNonAlnum(s) == SelectSeq(s, KeepChar)

DigitChar(d) == << "0", "1", "2", "3", "4", "5", "6", "7", "8", "9" >>[d + 1]
DigitVal(c) == CHOOSE d \in 0..9 : DigitChar(d) = c

\* str(n) for n >= 0
RECURSIVE StrOf(_)
StrOf(n) ==
  IF n < 10 THEN << DigitChar(n) >>
  ELSE StrOf(n \div 10) \o << DigitChar(n % 10) >>

\* int(ds) for a run of decimal digits (Python integers are unbounded)
RECURSIVE ParseInt(_)
ParseInt(ds) ==
  IF ds = << >> THEN 0
  ELSE ParseInt(SubSeq(ds, 1, Len(ds) - 1)) * 10 + DigitVal(ds[Len(ds)])

\* str.rfind(c), 1-based; 0 when c does not occur
RFind(s, c) ==
  LET I == {i \in 1..Len(s) : s[i] = c}
  IN  IF I = {} THEN 0 ELSE Max(I)

\* os.path.basename (posix)
Basename(p) == SubSeq(p, RFind(p, "/") + 1, Len(p))

\* os.path.splitext: the last dot after the last separator, unless only
\* dots precede it in the file name
SplitExt(p) ==
  LET sep == RFind(p, "/")
      dot == RFind(p, ".")
  IN  IF dot > sep /\ \E i \in (sep + 1)..(dot - 1) : p[i] # "."
      THEN << SubSeq(p, 1, dot - 1), SubSeq(p, dot, Len(p)) >>
      ELSE << p, << >> >>

\* s.split('.')[0]
SplitDotFirst(s) ==
  LET I == {i \in 1..Len(s) : s[i] = "."}
  IN  IF I = {} THEN s ELSE SubSeq(s, 1, Min(I) - 1)

----------------------------------------------------------------------------
(* Title Resolver and Notes Extractor: the body of the loop over prs.slides *)

max_length == 100

\* A slide: shapes is slide.shapes, each shape an optional text (has = FALSE
\* when the shape has no "text" attribute); title is the position in shapes
\* of slide.shapes.title, 0 when it is None; notes is the text of the notes
\* frame (has = FALSE when there is no notes slide or no notes frame).

\* title_shape and hasattr(title_shape, "text") and len(title_shape.text) > 0
HasDedicatedTitle(slide) ==
  /\ slide.title # 0
  /\ slide.shapes[slide.title].has
  /\ Len(slide.shapes[slide.title].text) > 0

\* re.sub(r"\s+", " ", title_shape.text).strip()
DedicatedTitle(text) == Strip(SubWs(text))

\* hasattr(shape, "text") and len(shape.text.strip()) > 0
ShapeHasText(shape) == shape.has /\ Len(Strip(shape.text)) > 0

\* fault: the loop over slide.shapes has no break, so the last shape wins
LastTextShape(shapes) ==
  LET I == {i \in 1..Len(shapes) : ShapeHasText(shapes[i])}
  IN  IF I = {} THEN 0 ELSE Max(I)

\* the shape at which the for loop over slide.shapes breaks; 0 when it
\* runs to the end
FirstTextShape(shapes) ==
  LET I == {i \in 1..Len(shapes) : ShapeHasText(shapes[i])}
  IN  IF I = {} THEN 0 ELSE Min(I)

\* the two re.sub calls of the else branch
ShapeTitle(text) == Strip(SubWs(SubNonAlnum(Strip(text))))

\* "Untitled " + str(index)
Untitled(i) == << "U", "n", "t", "i", "t", "l", "e", "d", " " >> \o StrOf(i)

\* title[0:max_length] when len(title) > max_length
Truncate(t) == IF Len(t) > max_length THEN SubSeq(t, 1, max_length) ELSE t

\* the value of title appended to slide_info for the slide at index i
ResolveTitle(slide, i) ==
  LET title ==
        IF HasDedicatedTitle(slide)
        THEN Text(DedicatedTitle(slide.shapes[slide.title].text))
        ELSE LET f == FirstTextShape(slide.shapes)
             IN  IF f = 0 THEN NoText
                 ELSE Text(ShapeTitle(slide.shapes[f].text))
  IN  Truncate(IF title.has THEN title.text ELSE Untitled(i))

\* the value of notes appended to slide_info
ResolveNotes(slide) ==
  IF slide.notes.has THEN Strip(slide.notes.text) ELSE << >>

\* slide_info after the loop: enumerate() counts from 0
SlideInfoOf(slides) ==
  [i \in 1..Len(slides) |->
     [title |-> ResolveTitle(slides[i], i - 1),
      notes |-> ResolveNotes(slides[i])]]

----------------------------------------------------------------------------
(* Presentation title *)

Placeholder ==
  << "P", "o", "w", "e", "r", "P", "o", "i", "n", "t", " ",
     "P", "r", "e", "s", "e", "n", "t", "a", "t", "i", "o", "n" >>

\* prs_title is None or len(prs_title) == 0 or prs_title == "PowerPoint Presentation"
TitleMissing(t) == ~t.has \/ Len(t.text) = 0 \/ t.text = Placeholder

PrsTitleOf(t, path) ==
  IF TitleMissing(t) THEN SplitDotFirst(Basename(path)) ELSE t.text

----------------------------------------------------------------------------
(* Filename Indexer *)

\* whether -(\d+)<ext>$ matches at position p with the digit run ending at j;
\* $ matches at the end of the string and before a final newline
MatchesAt(entry, ext, p, j) ==
  /\ entry[p] = "-"
  /\ j > p
  /\ \A i \in (p + 1)..j : entry[i] \in Digits
  /\ LET rest == SubSeq(entry, j + 1, Len(entry))
     IN  rest = ext \/ rest = ext \o << "\n" >>

\* fault: the pattern captures one digit, -(\d)<ext>$
FindAllOneDigit(entry, ext) ==
  LET P == {p \in 1..Len(entry) : MatchesAt(entry, ext, p, p + 1)}
  IN  IF P = {} THEN << >> ELSE << SubSeq(entry, Min(P) + 1, Min(P) + 1) >>

\* re.findall(r"-(\d+)" + re.escape(ext) + r"$", entry): the captured digit
\* runs of the non-overlapping matches, leftmost first.  A match runs to the
\* end of the string, so the scan finds at most the leftmost one; \d+ is
\* greedy, so its digit run is the longest that lets the rest match.
FindAll(entry, ext) ==
  LET P == {p \in 1..Len(entry) :
               \E j \in 1..Len(entry) : MatchesAt(entry, ext, p, j)}
  IN  IF P = {} THEN << >>
      ELSE LET p == Min(P)
               j == Max({k \in 1..Len(entry) : MatchesAt(entry, ext, p, k)})
           IN  << SubSeq(entry, p + 1, j) >>

\* the value of index for a directory entry
ParseIndex(entry) ==
  LET ext == SplitExt(entry)[2]
      index_match == FindAll(entry, ext)
  IN  IF Len(index_match) = 0 THEN 0 ELSE ParseInt(index_match[1])

----------------------------------------------------------------------------
(* Descriptor Assembler *)

NoSlide == [title |-> << >>, notes |-> << >>]

\* fault: an out-of-range index substitutes an empty slide instead of raising
LookupDefault(info, i) ==
  IF i < Len(info) THEN [ok |-> TRUE, slide |-> info[i + 1]]
  ELSE [ok |-> TRUE, slide |-> NoSlide]

\* slide_info[index]: IndexError (ok = FALSE) when index is not below
\* len(slide_info); index is never negative, \d+ captures no sign
Lookup(info, i) ==
  IF i < Len(info) THEN [ok |-> TRUE, slide |-> info[i + 1]]
  ELSE [ok |-> FALSE, slide |-> NoSlide]

\* the record appended to slides_data
SlideRecord(slide, i, entry) ==
  [index |-> i, title |-> slide.title, notes |-> slide.notes, image |-> entry]

\* fault: the sort is left out
Unsorted(s) == s

\* list.sort(key=sort_by_index): stable, ascending by the key
RECURSIVE SortByIndex(_)
SortByIndex(s) ==
  IF s = << >> THEN << >>
  ELSE LET m == Min({s[i].index : i \in 1..Len(s)})
           k == Min({i \in 1..Len(s) : s[i].index = m})
       IN  << s[k] >> \o
           SortByIndex(SubSeq(s, 1, k - 1) \o SubSeq(s, k + 1, Len(s)))

----------------------------------------------------------------------------
(* The file system: data.json in the image directory *)

Absent == [kind |-> "absent", title |-> << >>, slides |-> << >>]
Old == [kind |-> "old", title |-> << >>, slides |-> << >>]
Empty == [kind |-> "empty", title |-> << >>, slides |-> << >>]
Partial == [kind |-> "partial", title |-> << >>, slides |-> << >>]

\* json.dumps({"title": prs_title, "slides": slides_data})
Descriptor(t, sd) == [kind |-> "full", title |-> t, slides |-> sd]

DataJson == << "d", "a", "t", "a", ".", "j", "s", "o", "n" >>

File(n) == [name |-> n, isdir |-> FALSE]
Dir(n) == [name |-> n, isdir |-> TRUE]

\* what os.listdir(images_path) lists: data.json is an entry once it exists
DirEntries(fl, fs) ==
  fl \cup (IF fs.kind # "absent" THEN {File(DataJson)} ELSE {})

\* os.listdir returns the entries in arbitrary order
Listings(S) ==
  {o \in [1..Cardinality(S) -> S] :
     \A i, j \in 1..Cardinality(S) : i # j => o[i] # o[j]}

----------------------------------------------------------------------------
(* The script, statement by statement *)

Fail(e) == pc' = "failed" /\ error' = e

\* lines 7-11
CheckArgs ==
  /\ pc = "start"
  /\ IF argv_len < 3 THEN Fail("Exception")
     ELSE pc' = "open_prs" /\ UNCHANGED error
  /\ UNCHANGED << run, argv_len, pptx_path, prs_ok, meta_title, deck, dir_ok,
                  folder, fs_data, fs_start, prs_title, slide_info,
                  folder_content, pos, index, slides_data, data_file, exc,
                  opened, out1 >>

\* line 13
OpenPresentation ==
  /\ pc = "open_prs"
  /\ IF prs_ok THEN pc' = "title" /\ UNCHANGED error
     ELSE Fail("PackageNotFoundError")
  /\ UNCHANGED << run, argv_len, pptx_path, prs_ok, meta_title, deck, dir_ok,
                  folder, fs_data, fs_start, prs_title, slide_info,
                  folder_content, pos, index, slides_data, data_file, exc,
                  opened, out1 >>

\* lines 15-19
ResolvePrsTitle ==
  /\ pc = "title"
  /\ prs_title' = PrsTitleOf(meta_title, pptx_path)
  /\ pc' = "extract"
  /\ UNCHANGED << error, run, argv_len, pptx_path, prs_ok, meta_title, deck,
                  dir_ok, folder, fs_data, fs_start, slide_info,
                  folder_content, pos, index, slides_data, data_file, exc,
                  opened, out1 >>

\* lines 21-49; the loop variable index keeps the last slide's position
ExtractSlides ==
  /\ pc = "extract"
  /\ slide_info' = SlideInfoOf(deck)
  /\ index' = IF Len(deck) > 0 THEN Len(deck) - 1 ELSE index
  /\ pc' = "listdir"
  /\ UNCHANGED << error, run, argv_len, pptx_path, prs_ok, meta_title, deck,
                  dir_ok, folder, fs_data, fs_start, prs_title,
                  folder_content, pos, slides_data, data_file, exc, opened,
                  out1 >>

\* lines 51-53
ListDir ==
  /\ pc = "listdir"
  /\ IF dir_ok
     THEN \E o \in Listings(DirEntries(folder, fs_data)) :
            /\ folder_content' = o
            /\ pos' = 1
            /\ pc' = IF Len(o) = 0 THEN "sort" ELSE "join"
            /\ UNCHANGED error
     ELSE Fail("FileNotFoundError") /\ UNCHANGED << folder_content, pos >>
  /\ UNCHANGED << run, argv_len, pptx_path, prs_ok, meta_title, deck, dir_ok,
                  folder, fs_data, fs_start, prs_title, slide_info, index,
                  slides_data, data_file, exc, opened, out1 >>

\* fault: subdirectories are not skipped
NeverSkip(entry) == FALSE

\* os.path.isdir(os.path.join(images_path, entry)): continue
SkipEntry(entry) == entry.isdir

\* fault: data.json is opened for writing before the join, so that an index
\* mismatch leaves it truncated
RaiseIndexErrorTruncated ==
  /\ Fail("IndexError")
  /\ fs_data' = Empty
  /\ UNCHANGED << pos, slides_data >>

\* line 68 raising: nothing is appended and no file has been touched
RaiseIndexError ==
  /\ Fail("IndexError")
  /\ UNCHANGED << pos, slides_data, fs_data >>

\* lines 55-75: one iteration of the loop over folder_content
JoinEntry ==
  /\ pc = "join"
  /\ LET entry == folder_content[pos]
         i == ParseIndex(entry.name)
         slide == Lookup(slide_info, i)
         next == IF pos = Len(folder_content) THEN "sort" ELSE "join"
     IN  IF SkipEntry(entry)
         THEN /\ pos' = pos + 1
              /\ pc' = next
              /\ UNCHANGED << error, index, slides_data, fs_data >>
         ELSE /\ index' = i
              /\ IF slide.ok
                 THEN /\ slides_data' =
                           Append(slides_data,
                                  SlideRecord(slide.slide, i, entry.name))
                      /\ pos' = pos + 1
                      /\ pc' = next
                      /\ UNCHANGED << error, fs_data >>
                 ELSE RaiseIndexError
  /\ UNCHANGED << run, argv_len, pptx_path, prs_ok, meta_title, deck, dir_ok,
                  folder, fs_start, prs_title, slide_info, folder_content,
                  data_file, exc, opened, out1 >>

\* lines 78-83
SortSlides ==
  /\ pc = "sort"
  /\ slides_data' = SortByIndex(slides_data)
  /\ data_file' = "None"
  /\ pc' = "open_out"
  /\ UNCHANGED << error, run, argv_len, pptx_path, prs_ok, meta_title, deck,
                  dir_ok, folder, fs_data, fs_start, prs_title, slide_info,
                  folder_content, pos, index, exc, opened, out1 >>

\* line 85: open(..., "w") truncates the file and returns a handle, or raises
OpenOutput ==
  /\ pc = "open_out"
  /\ \/ /\ data_file' = "open"
        /\ opened' = TRUE
        /\ fs_data' = Empty
        /\ pc' = "write"
        /\ UNCHANGED exc
     \/ /\ exc' = "OSError"
        /\ pc' = "finally"
        /\ UNCHANGED << data_file, opened, fs_data >>
  /\ UNCHANGED << error, run, argv_len, pptx_path, prs_ok, meta_title, deck,
                  dir_ok, folder, fs_start, prs_title, slide_info,
                  folder_content, pos, index, slides_data, out1 >>

\* line 86: the write succeeds, or raises leaving nothing or a part written
WriteOutput ==
  /\ pc = "write"
  /\ \/ /\ fs_data' = Descriptor(prs_title, slides_data)
        /\ UNCHANGED exc
     \/ /\ fs_data' \in {Empty, Partial}
        /\ exc' = "OSError"
  /\ pc' = "finally"
  /\ UNCHANGED << error, run, argv_len, pptx_path, prs_ok, meta_title, deck,
                  dir_ok, folder, fs_start, prs_title, slide_info,
                  folder_content, pos, index, slides_data, data_file, opened,
                  out1 >>

\* fault: the handle is closed on the success path only (no finally)
ShouldCloseOnSuccess(df, ex) == df # "None" /\ ex = "none"

\* if data_file is not None
ShouldClose(df, ex) == df # "None"

\* lines 87-89: the finally block, then the pending exception propagates
Finally ==
  /\ pc = "finally"
  /\ data_file' = IF ShouldClose(data_file, exc) THEN "closed" ELSE data_file
  /\ IF exc = "none" THEN pc' = "done" /\ UNCHANGED error ELSE Fail(exc)
  /\ UNCHANGED << run, argv_len, pptx_path, prs_ok, meta_title, deck, dir_ok,
                  folder, fs_data, fs_start, prs_title, slide_info,
                  folder_content, pos, index, slides_data, exc, opened, out1 >>

\* the script is invoked again with the same arguments: a new process, whose
\* variables start afresh, on the file system the first run left
Rerun ==
  /\ pc \in {"done", "failed"}
  /\ run = "first"
  /\ run' = "second"
  /\ out1' = [ok |-> pc = "done", data |-> fs_data]
  /\ fs_start' = fs_data
  /\ pc' = "start"
  /\ error' = "none"
  /\ prs_title' = << >>
  /\ slide_info' = << >>
  /\ folder_content' = << >>
  /\ pos' = 0
  /\ index' = 0
  /\ slides_data' = << >>
  /\ data_file' = "None"
  /\ exc' = "none"
  /\ opened' = FALSE
  /\ UNCHANGED << argv_len, pptx_path, prs_ok, meta_title, deck, dir_ok,
                  folder, fs_data >>

Next ==
  \/ CheckArgs
  \/ OpenPresentation
  \/ ResolvePrsTitle
  \/ ExtractSlides
  \/ ListDir
  \/ JoinEntry
  \/ SortSlides
  \/ OpenOutput
  \/ WriteOutput
  \/ Finally
  \/ Rerun

\* the state in which the interpreter starts the script
Start(al, path, pok, mt, dk, dok, fl, fs) ==
  /\ pc = "start"
  /\ error = "none"
  /\ run = "first"
  /\ argv_len = al
  /\ pptx_path = path
  /\ prs_ok = pok
  /\ meta_title = mt
  /\ deck = dk
  /\ dir_ok = dok
  /\ folder = fl
  /\ fs_data = fs
  /\ fs_start = fs
  /\ prs_title = << >>
  /\ slide_info = << >>
  /\ folder_content = << >>
  /\ pos = 0
  /\ index = 0
  /\ slides_data = << >>
  /\ data_file = "None"
  /\ exc = "none"
  /\ opened = FALSE
  /\ out1 = [ok |-> FALSE, data |-> Absent]

----------------------------------------------------------------------------
(* Inputs of a run *)

\* a slide with a dedicated title and notes
IntroSlide ==
  [shapes |-> << Text(<< "I", "n", "t", "r", "o" >>),
                 Text(<< "W", "e", "l", "c", "o", "m", "e", ",", " ", "a", "l", "l", "!" >>) >>,
   title |-> 1,
   notes |-> Text(<< " ", "s", "a", "y", " ", "h", "i", " " >>)]

\* a slide with no dedicated title, whose text is in its second shape
ResultsSlide ==
  [shapes |-> << NoText, Text(<< "R", "e", "s", "u", "l", "t", "s", " ", "2", "0", "2", "4" >>) >>,
   title |-> 0,
   notes |-> NoText]

\* a slide with an empty title placeholder and no text at all
BlankSlide ==
  [shapes |-> << Text(<< >>) >>, title |-> 1, notes |-> Text(<< >>)]

DeckSlide(i) ==
  IF i % 3 = 1 THEN IntroSlide ELSE IF i % 3 = 2 THEN ResultsSlide
  ELSE BlankSlide

\* the presentation with n slides
Deck(n) == [i \in 1..n |-> DeckSlide(i)]

DeckPath == << "d", "e", "c", "k", ".", "p", "p", "t", "x" >>

EntryPool ==
  { File(<< "S", "l", "i", "d", "e", "-", "0", ".", "p", "n", "g" >>),
    File(<< "S", "l", "i", "d", "e", "-", "1", ".", "p", "n", "g" >>),
    File(<< "S", "l", "i", "d", "e", "-", "0", "2", ".", "p", "n", "g" >>),
    File(<< "S", "l", "i", "d", "e", ".", "p", "n", "g" >>),
    Dir(<< "t", "h", "u", "m", "b", "s", "-", "1" >>) }

Folders == {fl \in SUBSET EntryPool : Cardinality(fl) <= MaxEntries}

Init ==
  \E al \in {2, 3}, pok \in BOOLEAN, dok \in BOOLEAN, n \in 0..MaxSlides,
     fl \in Folders, fs \in {Absent, Old} :
    Start(al, DeckPath, pok, NoText, Deck(n), dok, fl, fs)

Spec == Init /\ [][Next]_vars

----------------------------------------------------------------------------
(* Inputs for the Title Resolver *)

LongText == Rep("x", 60) \o << "!", " ", " " >> \o Rep("y", 60)

TextPool ==
  { NoText,
    Text(<< >>),
    Text(<< " " >>),
    Text(<< "!", "!", "!" >>),
    Text(<< "H", "e", "l", "l", "o", "!", "!", "!", " ", "W", "o", "r", "l", "d" >>),
    Text(<< " ", "a", "_", "b", "\t", "c", "\n" >>),
    Text(LongText) }

ShapeLists == UNION {[1..n -> TextPool] : n \in 0..MaxShapes}

TitleSlides ==
  {[shapes |-> sh, title |-> t, notes |-> NoText] :
     sh \in ShapeLists, t \in 0..MaxShapes}

TitleDecks ==
  LET ok == {s \in TitleSlides : s.title <= Len(s.shapes)}
  IN  {<< s >> : s \in ok} \cup {<< IntroSlide, s >> : s \in ok}

InitTitle ==
  \E dk \in TitleDecks :
    Start(3, DeckPath, TRUE, NoText, dk, TRUE,
          {File(<< "S", "l", "i", "d", "e", "-", "0", ".", "p", "n", "g" >>)}, Absent)

SpecTitle == InitTitle /\ [][Next]_vars

----------------------------------------------------------------------------
(* Inputs for the presentation title *)

PathDirs == { << >>, << "d", "/" >>, << "d", ".", "e", "/" >> }
PathStems ==
  { << "d", "e", "c", "k" >>,
    << "m", "y", ".", "d", "e", "c", "k" >>,
    << "v", "1", ".", "2", "-", "d", "e", "c", "k" >> }
PathExts == { << >>, << ".", "p", "p", "t", "x" >> }

MetaPaths == {d \o st \o e : d \in PathDirs, st \in PathStems, e \in PathExts}

MetaTitles ==
  { NoText, Text(<< >>), Text(Placeholder), Text(<< "Q", "3", " ", "p", "l", "a", "n" >>),
    Text(<< "a", ".", "b" >>) }

InitMeta ==
  \E path \in MetaPaths, mt \in MetaTitles :
    Start(3, path, TRUE, mt, Deck(1), TRUE,
          {File(<< "S", "l", "i", "d", "e", "-", "0", ".", "p", "n", "g" >>)}, Absent)

SpecMeta == InitMeta /\ [][Next]_vars

----------------------------------------------------------------------------
(* Inputs for the Filename Indexer *)

SlidePrefix == << "S", "l", "i", "d", "e", "-" >>

\* the extensions os.path.splitext reports: empty, or a dot and no other dot
ExtPool == { << >>, << ".", "p", "n", "g" >>, << ".", "5" >>, << ".", "a", "-", "1" >>, << "." >> }

\* the file name Slide-<k><ext>, k written in base 10 after z leading zeros
SlideName(k, z, ext) == SlidePrefix \o Rep("0", z) \o StrOf(k) \o ext

InitIndex ==
  \E k \in 0..MaxK, z \in 0..MaxZeros, ext \in ExtPool, n \in {0, MaxSlides} :
    Start(3, DeckPath, TRUE, NoText, Deck(n), TRUE,
          {File(SlideName(k, z, ext))}, Absent)

SpecIndex == InitIndex /\ [][Next]_vars

----------------------------------------------------------------------------
(* Properties *)

Terminal == pc \in {"done", "failed"}

\* the directory as the current run found it
ListedEntries == DirEntries(folder, fs_start)
ListedFiles == {e \in ListedEntries : ~e.isdir}

\* data.json holds the Descriptor the current run wrote
Written == pc \in {"finally", "done"} /\ exc = "none" /\ fs_data.kind = "full"

\* C1: a listed non-directory file whose parsed index is not below the
\* number of slides (with no slides: any file) gets no SlideRecord, default
\* or otherwise; the loop never moves past it and the run never reaches the
\* sort or the write: it can only end, failed, with IndexError.
C1_OutOfRangeAborts ==
  \A p \in 1..Len(folder_content) :
    LET e == folder_content[p]
    IN  (~e.isdir /\ ParseIndex(e.name) >= Len(deck)) =>
          /\ pc \in {"join", "failed"}
          /\ pos <= p
          /\ pc = "failed" => error = "IndexError"
          /\ \A r \in 1..Len(slides_data) : slides_data[r].image # e.name
          /\ fs_data.kind # "full" \/ fs_data = fs_start

\* a run of a presentation that has slides aborts on an out-of-range image
\* after it produced records for the images before it
C1_Witness ==
  /\ pc = "failed"
  /\ error = "IndexError"
  /\ Len(deck) > 0
  /\ Len(slides_data) > 0
  /\ ParseIndex(folder_content[pos].name) >= Len(deck)

\* C2 as stated: the slides array written to data.json is strictly ascending
\* by index.
C2_StrictlyAscending ==
  Written =>
    \A i, j \in 1..Len(fs_data.slides) :
      i < j => fs_data.slides[i].index < fs_data.slides[j].index

\* C2, amended: the slides array written to data.json is ascending by index
\* (no record's index is below that of the record before it), and strictly
\* ascending when no two listed files parse to the same index.
C2_Ascending ==
  Written =>
    /\ \A i, j \in 1..Len(fs_data.slides) :
         i < j => fs_data.slides[i].index <= fs_data.slides[j].index
    /\ (\A e, f \in ListedFiles :
          e # f => ParseIndex(e.name) # ParseIndex(f.name)) =>
         \A i, j \in 1..Len(fs_data.slides) :
           i < j => fs_data.slides[i].index < fs_data.slides[j].index

\* the directory was listed out of index order and the run wrote its output
C2_Witness ==
  /\ pc = "done"
  /\ Len(fs_data.slides) >= 2
  /\ \E i, j \in 1..Len(folder_content) :
       /\ i < j
       /\ ~folder_content[i].isdir
       /\ ~folder_content[j].isdir
       /\ ParseIndex(folder_content[i].name) > ParseIndex(folder_content[j].name)

\* C7: a run that failed without open() having returned a handle left
\* data.json as it found it (absent, or with its prior content), and the
\* usage error, the presentation and directory errors and the index mismatch
\* all come before the open.
C7_NoOutputOnEarlyFailure ==
  pc = "failed" =>
    /\ error \in {"Exception", "PackageNotFoundError", "FileNotFoundError",
                  "IndexError"} => ~opened
    /\ ~opened => fs_data = fs_start

\* an index mismatch with a data.json already there
C7_Witness ==
  /\ pc = "failed"
  /\ error = "IndexError"
  /\ fs_start.kind # "absent"
  /\ fs_data = fs_start

\* C8: the handle is open only between open() and the finally block; at the
\* end of a run it is closed if it was opened, and it is closed only if it
\* was opened.
C8_HandleClosed ==
  /\ data_file = "open" => opened /\ pc \in {"write", "finally"}
  /\ data_file = "closed" => opened
  /\ Terminal /\ opened => data_file = "closed"

\* the write raised and the handle was closed all the same
C8_Witness ==
  /\ pc = "failed"
  /\ error = "OSError"
  /\ opened
  /\ data_file = "closed"
  /\ fs_data.kind = "partial"

\* C9: when a run completes, the slides array has one record per listed
\* non-directory entry and none for a subdirectory; a record's image is the
\* entry's name, its index the name's parsed index, its title and notes those
\* of slide_info at that zero-based position.
C9_OneRecordPerFile ==
  pc = "done" =>
    LET sl == fs_data.slides
    IN  /\ fs_data.kind = "full"
        /\ Len(sl) = Cardinality(ListedFiles)
        /\ \A e \in ListedFiles :
             \E r \in 1..Len(sl) :
               /\ sl[r].image = e.name
               /\ \A q \in 1..Len(sl) : sl[q].image = e.name => q = r
        /\ \A r \in 1..Len(sl) :
             /\ \E e \in ListedFiles : sl[r].image = e.name
             /\ sl[r].index = ParseIndex(sl[r].image)
             /\ sl[r].index < Len(slide_info)
             /\ sl[r].title = slide_info[sl[r].index + 1].title
             /\ sl[r].notes = slide_info[sl[r].index + 1].notes
        /\ \A e \in ListedEntries :
             e.isdir => \A r \in 1..Len(sl) : sl[r].image # e.name

\* a completed run over a directory with a subdirectory and two files
C9_Witness ==
  /\ pc = "done"
  /\ \E e \in ListedEntries : e.isdir
  /\ Cardinality(ListedFiles) >= 2
  /\ Len(fs_data.slides) = Cardinality(ListedFiles)

\* C10 as stated: the second run on the same inputs does not fail where the
\* first succeeded (other than by the output file failing under it), and
\* writes the same title and the same set of SlideRecords.
C10_SecondRunSame ==
  (run = "second" /\ out1.ok) =>
    /\ pc = "failed" => error = "OSError"
    /\ pc = "done" =>
         /\ fs_data.title = out1.data.title
         /\ {fs_data.slides[r] : r \in 1..Len(fs_data.slides)} =
              {out1.data.slides[r] : r \in 1..Len(out1.data.slides)}


\* slide_info has been computed by the current run
Extracted == Len(slide_info) = Len(deck) /\ pc \notin {"start", "open_prs", "title", "extract"}

\* C3 as stated: every resolved title is non-empty and at most 100
\* characters long.
C3_TitleNonEmptyBounded ==
  \A i \in 1..Len(slide_info) :
    Len(slide_info[i].title) >= 1 /\ Len(slide_info[i].title) <= 100

\* C4 as stated: with the metadata title absent, empty or the placeholder,
\* the top-level title is the base name of the presentation path with only
\* its extension removed; otherwise it is the metadata title.
C4_TitleIsBaseNameOrMeta ==
  pc \notin {"start", "open_prs", "title"} =>
    prs_title =
      IF ~meta_title.has \/ meta_title.text = << >>
         \/ meta_title.text = Placeholder
      THEN SplitExt(Basename(pptx_path))[1]
      ELSE meta_title.text

\* the slide has no dedicated title region, or one with empty text
C5_NoTitleText(slide) ==
  \/ slide.title = 0
  \/ ~slide.shapes[slide.title].has
  \/ slide.shapes[slide.title].text = << >>

\* the shapes that carry text which is not all whitespace
C5_TextShapes(slide) ==
  {n \in 1..Len(slide.shapes) :
     /\ slide.shapes[n].has
     /\ \E c \in 1..Len(slide.shapes[n].text) :
          slide.shapes[n].text[c] \notin Whitespace}

\* the text with everything but ASCII letters, digits and spaces removed,
\* whitespace runs collapsed and the ends trimmed
C5_Cleaned(text) == Strip(SubWs(SubNonAlnum(text)))

\* C5 as stated: with no dedicated title text, the resolved title is the
\* cleaned text of the first shape that has text.
C5_FirstShapeCleaned ==
  Extracted =>
    \A i \in 1..Len(deck) :
      (C5_NoTitleText(deck[i]) /\ C5_TextShapes(deck[i]) # {}) =>
        slide_info[i].title =
          C5_Cleaned(deck[i].shapes[Min(C5_TextShapes(deck[i]))].text)

\* C5, amended: with no dedicated title text, the resolved title is the
\* cleaned text of the first shape that has text, cut to its first 100
\* characters when it is longer; the shapes after it have no say.
C5_FirstShapeCleanedCut ==
  Extracted =>
    \A i \in 1..Len(deck) :
      (C5_NoTitleText(deck[i]) /\ C5_TextShapes(deck[i]) # {}) =>
        LET t == C5_Cleaned(deck[i].shapes[Min(C5_TextShapes(deck[i]))].text)
        IN  slide_info[i].title =
              SubSeq(t, 1, IF Len(t) < 100 THEN Len(t) ELSE 100)

\* "Hello!!! World" in the first shape, another text after it
C5_Witness ==
  /\ Extracted
  /\ \E i \in 1..Len(deck) :
       /\ deck[i].title = 0
       /\ Len(deck[i].shapes) >= 2
       /\ deck[i].shapes[1] = Text(<< "H", "e", "l", "l", "o", "!", "!", "!", " ", "W", "o", "r", "l", "d" >>)
       /\ deck[i].shapes[2].has
       /\ Len(deck[i].shapes[2].text) > 100
       /\ slide_info[i].title = << "H", "e", "l", "l", "o", " ", "W", "o", "r", "l", "d" >>

\* the loop over folder_content has worked on the only entry listed
JoinedSingle ==
  /\ Len(folder_content) = 1
  /\ pos = 2 \/ (pc = "failed" /\ error = "IndexError")

\* C6: for the file name Slide-<k><ext>, k in base 10 with or without
\* leading zeros and ext an extension, the index parsed is k.
C6_IndexRoundTrip ==
  JoinedSingle =>
    \A k \in 0..MaxK, z \in 0..MaxZeros, ext \in ExtPool :
      folder_content[1] = File(SlideName(k, z, ext)) => index = k

\* a two-digit index written with a leading zero
C6_Witness ==
  /\ JoinedSingle
  /\ \E k \in 10..MaxK, z \in 1..MaxZeros :
       /\ folder_content[1] = File(SlideName(k, z, << ".", "p", "n", "g" >>))
       /\ index = k

====
